---- MODULE Spec2Model ----
(***************************************************************************)
(* Item Management API (src/main.py): API-key gate, per-request database   *)
(* session, and the five CRUD endpoints over the "items" table.            *)
(*                                                                         *)
(* Endpoints are plain "def" functions, so the framework runs them on a    *)
(* thread pool: requests interleave between their database calls.  Every   *)
(* database call (query, commit, refresh) is one atomic step; the Python   *)
(* code between two database calls is local to the request and is folded   *)
(* into the step of the call that precedes it.                             *)
(*                                                                         *)
(* Store failures (connection loss, constraint violation) are injected     *)
(* where the code handles them: inside the three try blocks.               *)
(***************************************************************************)
EXTENDS Integers, Sequences, FiniteSets, TLC

\* ---------------------------------------------------------------- bounds
MaxId == 2        \* values the id sequence may hand out
MaxSkip == 1      \* largest skip / limit query parameter
NumWorkers == 2   \* requests in flight at once

Workers == 1..NumWorkers
Ids == 1..MaxId

\* ------------------------------------------------------- optional values
None == <<>>
Some(v) == <<v>>

Fields == {"name", "price", "description", "is_offer"}

\* ---------------------------------------------------------------- inputs
\* A parsed request body: the declared fields (defaulting to None) and the
\* set of fields the client actually sent (pydantic's model_fields_set).
Body(set, name, price, description, is_offer) ==
  [set |-> set, name |-> name, price |-> price,
   description |-> description, is_offer |-> is_offer]

NoBody == Body({}, None, None, None, None)
Widget == Body({"name", "price"}, Some("a"), Some(1), None, None)
Gadget == Body(Fields, Some("a"), Some(2), Some("d"), Some(TRUE))
PriceOnly == Body({"price"}, None, Some(1), None, None)
NullName == Body({"name"}, None, None, None, None)

\* Bodies sent to POST (PriceOnly lacks the required name) and to PUT.
CreateBodies == {Widget, Gadget, PriceOnly}
UpdateBodies == {NoBody, Gadget, PriceOnly, NullName}

Headers == {None, Some("secret"), Some("wrong")}

Ops == {"create", "read", "list", "update", "delete"}
Mutations == {"create", "update", "delete"}

VARIABLES
  API_KEY,     \* configured secret, None when the environment has none
  items,       \* the items table: sequence of rows in insertion order
  seq,         \* last value handed out by the id sequence
  created,     \* history: ids of committed inserts, in commit order
  deleted,     \* history: ids removed by a committed delete
  origin,      \* history: {[id, item]} for rows untouched since their insert
  pc,          \* per worker: where its request stands
  req,         \* per worker: the request being served
  session,     \* per worker: state of the request's database session
  loaded,      \* per worker: the row the session loaded (identity map)
  committed,   \* per worker: db.commit() returned for this request
  rolledback,  \* per worker: db.rollback() was called for this request
  resp         \* per worker: the response

vars == <<API_KEY, items, seq, created, deleted, origin, pc, req, session,
          loaded, committed, rolledback, resp>>

\* ------------------------------------------------------------ responses
Response(status, body) == [status |-> status, body |-> body]
NoResp == Response(0, "")
NoReq == [op |-> "none", key |-> None, id |-> 0, item |-> NoBody,
          skip |-> 0, limit |-> 0]
NoRow == [id |-> 0, name |-> None, price |-> None, description |-> None,
          is_offer |-> None]

\* ------------------------------------------------------------- the table
RowIds(tbl) == {tbl[i].id : i \in 1..Len(tbl)}
HasRow(tbl, id) == \E i \in 1..Len(tbl) : tbl[i].id = id
\* db.query(DBItem).filter(DBItem.id == item_id).first()
First(tbl, id) ==
  LET i == CHOOSE j \in 1..Len(tbl) :
             /\ tbl[j].id = id
             /\ \A k \in 1..(j - 1) : tbl[k].id # id
  IN tbl[i]
Without(tbl, id) == SelectSeq(tbl, LAMBDA row : row.id # id)
SeqRange(s) == {s[i] : i \in 1..Len(s)}

Min(a, b) == IF a < b THEN a ELSE b

\* ------------------------------------------------------- authentication
\* Variant: the header is only checked for presence.
get_api_key_presence_only(api_key_header, secret) ==
  IF api_key_header = None THEN "API Key header was not provided"
  ELSE ""

\* get_api_key: "" when the header is accepted, else the 401 detail.
get_api_key(api_key_header, secret) ==
  IF api_key_header = None THEN "API Key header was not provided"
  ELSE IF api_key_header # secret THEN "Invalid API Key"
  ELSE ""

\* ------------------------------------------------------ pydantic models
\* ItemBase / ItemCreate: name and price are required and not nullable.
ItemBase(item) ==
  /\ "name" \in item.set /\ item.name # None
  /\ "price" \in item.set /\ item.price # None

\* ItemUpdate: every field optional and nullable, so every body parses.
ItemUpdate(item) == TRUE

\* ItemResponse (response_model): id, name and price must be present.
ItemResponse(row) == row.name # None /\ row.price # None

\* item.model_dump(): all declared fields, defaults included.
model_dump(item) == [f \in Fields |-> item[f]]

\* Variant: the dump without exclude_unset.
model_dump_with_defaults(item) == [f \in Fields |-> item[f]]

\* item_update.model_dump(exclude_unset=True): only the fields sent.
model_dump_exclude_unset(item) == [f \in item.set |-> item[f]]

\* ------------------------------------------------------------ ORM model
\* DBItem(**data) followed by INSERT.  The unit of work leaves a None
\* attribute out of the INSERT when the column has a default, so the
\* column default (is_offer: default=False) is stored in its place;
\* description has no default and is stored as NULL.
DBItem(id, data) ==
  [id |-> id, name |-> data.name, price |-> data.price,
   description |-> data.description,
   is_offer |-> IF data.is_offer = None THEN Some(FALSE) ELSE data.is_offer]

\* Variant: the id is the current row count plus one.
NextId_by_count(last, tbl) == Len(tbl) + 1

\* The id the table's autoincrement primary key assigns to the next INSERT.
NextId(last, tbl) == last + 1

\* for key, value in update_data.items(): setattr(db_item, key, value)
SetAttrs(row, update_data) ==
  [f \in DOMAIN row |-> IF f \in DOMAIN update_data THEN update_data[f] ELSE row[f]]

\* The columns the flush writes: attributes whose value differs from the
\* value the session loaded.
Changed(row, update_data) ==
  {f \in DOMAIN update_data : update_data[f] # row[f]}

\* UPDATE items SET <changed columns> WHERE id = :id
UpdateRow(tbl, id, cols, update_data) ==
  [i \in 1..Len(tbl) |->
     IF tbl[i].id = id
     THEN [f \in DOMAIN tbl[i] |-> IF f \in cols THEN update_data[f] ELSE tbl[i][f]]
     ELSE tbl[i]]

\* Variant: the limit is not applied.
Page_without_limit(tbl, skip, limit) == SubSeq(tbl, skip + 1, Len(tbl))

\* db.query(DBItem).offset(skip).limit(limit).all()
Page(tbl, skip, limit) == SubSeq(tbl, skip + 1, Min(Len(tbl), skip + limit))

\* Serialisation of a returned row through response_model=ItemResponse.
Serialize(status, row) ==
  IF ItemResponse(row) THEN Response(status, row)
  ELSE Response(500, "Internal Server Error")

\* Serialisation of a returned list through List[ItemResponse].
SerializeList(rows) ==
  IF \A i \in 1..Len(rows) : ItemResponse(rows[i]) THEN Response(200, rows)
  ELSE Response(500, "Internal Server Error")

\* db.commit() expires the loaded object: only its identity stays.
Expire(row) == [NoRow EXCEPT !.id = row.id]

\* ----------------------------------------------------------------- Init
Init ==
  /\ API_KEY \in {None, Some("secret")}
  /\ items = <<>>
  /\ seq = 0
  /\ created = <<>>
  /\ deleted = {}
  /\ origin = {}
  /\ pc = [r \in Workers |-> "idle"]
  /\ req = [r \in Workers |-> NoReq]
  /\ session = [r \in Workers |-> "closed"]
  /\ loaded = [r \in Workers |-> NoRow]
  /\ committed = [r \in Workers |-> FALSE]
  /\ rolledback = [r \in Workers |-> FALSE]
  /\ resp = [r \in Workers |-> NoResp]

Request(op, key, id, item, skip, limit) ==
  [op |-> op, key |-> key, id |-> id, item |-> item, skip |-> skip, limit |-> limit]

\* Dependencies and body validation, in the order the framework resolves
\* them: get_db, get_api_key, then the request body.  NoResp when the
\* endpoint body is entered.
Refusal(rq) ==
  LET detail == get_api_key(rq.key, API_KEY) IN
  IF detail # "" THEN Response(401, detail)
  ELSE IF rq.op = "create" /\ ~ItemBase(rq.item) THEN Response(422, "validation error")
  ELSE IF rq.op = "update" /\ ~ItemUpdate(rq.item) THEN Response(422, "validation error")
  ELSE NoResp

\* The request ends before the endpoint function is called: its parameters
\* are never bound, only the header reached get_api_key.  The session that
\* get_db opened is still to be closed.
Refuse(r, rq) ==
  /\ req' = [req EXCEPT ![r] = [NoReq EXCEPT !.op = rq.op, !.key = rq.key]]
  /\ session' = [session EXCEPT ![r] = "open"]
  /\ resp' = [resp EXCEPT ![r] = Refusal(rq)]
  /\ pc' = [pc EXCEPT ![r] = "cleanup"]
  /\ UNCHANGED <<API_KEY, items, seq, created, deleted, origin, loaded,
                 committed, rolledback>>

\* except Exception: db.rollback(); raise HTTPException(500, detail)
Rollback(r, detail) ==
  /\ rolledback' = [rolledback EXCEPT ![r] = TRUE]
  /\ session' = [session EXCEPT ![r] = "open"]
  /\ resp' = [resp EXCEPT ![r] = Response(500, detail)]
  /\ loaded' = [loaded EXCEPT ![r] = NoRow]
  /\ pc' = [pc EXCEPT ![r] = "cleanup"]

\* db.refresh(db_item) and the return, shared by create and update: the
\* row is read again by primary key; a missing row or a store failure
\* raises inside the try block.
Refresh(r, status, detail) ==
  \E ok \in BOOLEAN :
    /\ IF ok /\ HasRow(items, loaded[r].id)
       THEN /\ loaded' = [loaded EXCEPT ![r] = NoRow]
            /\ session' = [session EXCEPT ![r] = "tx"]
            /\ resp' = [resp EXCEPT ![r] = Serialize(status, First(items, loaded[r].id))]
            /\ pc' = [pc EXCEPT ![r] = "cleanup"]
            /\ UNCHANGED rolledback
       ELSE Rollback(r, detail)
    /\ UNCHANGED <<API_KEY, items, seq, created, deleted, origin, req, committed>>

\* ------------------------------------------------------------ endpoints
\* POST /items/ : dependencies, DBItem(**item.model_dump()), db.add and
\* db.commit (flush: INSERT with a fresh id; COMMIT).
create_item_endpoint(r) ==
  /\ pc[r] = "idle"
  /\ \E key \in Headers, item \in CreateBodies :
       LET rq == Request("create", key, 0, item, 0, 0) IN
       IF Refusal(rq) # NoResp THEN Refuse(r, rq)
       ELSE
         /\ seq < MaxId
         /\ req' = [req EXCEPT ![r] = rq]
         /\ \E ok \in BOOLEAN :
              IF ok
              THEN LET db_item == DBItem(NextId(seq, items), model_dump(item)) IN
                   /\ items' = Append(items, db_item)
                   /\ seq' = db_item.id
                   /\ created' = Append(created, db_item.id)
                   /\ origin' = origin \cup {[id |-> db_item.id, item |-> item]}
                   /\ loaded' = [loaded EXCEPT ![r] = Expire(db_item)]
                   /\ committed' = [committed EXCEPT ![r] = TRUE]
                   /\ session' = [session EXCEPT ![r] = "open"]
                   /\ pc' = [pc EXCEPT ![r] = "refresh"]
                   /\ UNCHANGED <<rolledback, resp>>
              ELSE \* the store raised before or after the id was drawn
                   /\ Rollback(r, "Could not create item in database.")
                   /\ seq' \in {seq, seq + 1}
                   /\ UNCHANGED <<items, created, origin, committed>>
         /\ UNCHANGED <<API_KEY, deleted>>

\* POST /items/ : db.refresh(db_item); return db_item
create_item_refresh(r) ==
  /\ pc[r] = "refresh"
  /\ req[r].op = "create"
  /\ Refresh(r, 201, "Could not create item in database.")

\* GET /items/{item_id}
read_item_endpoint(r) ==
  /\ pc[r] = "idle"
  /\ \E key \in Headers, item_id \in Ids :
       LET rq == Request("read", key, item_id, NoBody, 0, 0) IN
       IF Refusal(rq) # NoResp THEN Refuse(r, rq)
       ELSE
         /\ req' = [req EXCEPT ![r] = rq]
         /\ session' = [session EXCEPT ![r] = "tx"]
         /\ pc' = [pc EXCEPT ![r] = "cleanup"]
         /\ resp' = [resp EXCEPT ![r] =
                       IF ~HasRow(items, item_id)
                       THEN Response(404, "Item not found")
                       ELSE Serialize(200, First(items, item_id))]
         /\ UNCHANGED <<API_KEY, items, seq, created, deleted, origin, loaded,
                        committed, rolledback>>

\* GET /items/?skip=&limit=
list_items_endpoint(r) ==
  /\ pc[r] = "idle"
  /\ \E key \in Headers, skip \in 0..MaxSkip, limit \in 0..MaxSkip :
       LET rq == Request("list", key, 0, NoBody, skip, limit) IN
       IF Refusal(rq) # NoResp THEN Refuse(r, rq)
       ELSE
         /\ req' = [req EXCEPT ![r] = rq]
         /\ session' = [session EXCEPT ![r] = "tx"]
         /\ pc' = [pc EXCEPT ![r] = "cleanup"]
         /\ resp' = [resp EXCEPT ![r] = SerializeList(Page(items, skip, limit))]
         /\ UNCHANGED <<API_KEY, items, seq, created, deleted, origin, loaded,
                        committed, rolledback>>

\* Variant: the empty-body check comes before the lookup.
update_checks_empty_first(tbl, item_id, item_update) ==
  IF DOMAIN model_dump_exclude_unset(item_update) = {}
  THEN Response(400, "No fields to update provided.")
  ELSE IF ~HasRow(tbl, item_id) THEN Response(404, "Item not found")
  ELSE NoResp

\* Variant: the empty-body check is missing.
update_checks_without_empty(tbl, item_id, item_update) ==
  IF ~HasRow(tbl, item_id) THEN Response(404, "Item not found")
  ELSE NoResp

\* PUT /items/{item_id} : the checks after the query, in source order: 404
\* when the row is missing, then 400 when no field was sent.  NoResp when
\* the update goes ahead.
update_checks(tbl, item_id, item_update) ==
  IF ~HasRow(tbl, item_id) THEN Response(404, "Item not found")
  ELSE IF DOMAIN model_dump_exclude_unset(item_update) = {}
  THEN Response(400, "No fields to update provided.")
  ELSE NoResp

\* PUT /items/{item_id} : dependencies, the query, the 404 and 400 checks
\* and the setattr loop.
update_item_endpoint(r) ==
  /\ pc[r] = "idle"
  /\ \E key \in Headers, item_id \in Ids, item_update \in UpdateBodies :
       LET rq == Request("update", key, item_id, item_update, 0, 0) IN
       IF Refusal(rq) # NoResp THEN Refuse(r, rq)
       ELSE
         /\ req' = [req EXCEPT ![r] = rq]
         /\ IF update_checks(items, item_id, item_update) # NoResp
            THEN /\ resp' = [resp EXCEPT ![r] = update_checks(items, item_id, item_update)]
                 /\ session' = [session EXCEPT ![r] = "tx"]
                 /\ pc' = [pc EXCEPT ![r] = "cleanup"]
                 /\ UNCHANGED loaded
            ELSE /\ loaded' = [loaded EXCEPT ![r] = First(items, item_id)]
                 /\ session' = [session EXCEPT ![r] = "dirty"]
                 /\ pc' = [pc EXCEPT ![r] = "commit"]
                 /\ UNCHANGED resp
         /\ UNCHANGED <<API_KEY, items, seq, created, deleted, origin,
                        committed, rolledback>>

\* PUT /items/{item_id} : db.add; db.commit (flush: UPDATE of the changed
\* columns, which raises when the row is gone; COMMIT).
update_item_commit(r) ==
  /\ pc[r] = "commit"
  /\ req[r].op = "update"
  /\ LET update_data == model_dump_exclude_unset(req[r].item)
         cols == Changed(loaded[r], update_data)
     IN \E ok \in BOOLEAN :
          IF ok /\ (cols = {} \/ HasRow(items, req[r].id))
          THEN /\ items' = UpdateRow(items, req[r].id, cols, update_data)
               /\ origin' = IF cols = {} THEN origin
                          ELSE {e \in origin : e.id # req[r].id}
               /\ loaded' = [loaded EXCEPT ![r] = Expire(SetAttrs(loaded[r], update_data))]
               /\ committed' = [committed EXCEPT ![r] = TRUE]
               /\ session' = [session EXCEPT ![r] = "open"]
               /\ pc' = [pc EXCEPT ![r] = "refresh"]
               /\ UNCHANGED <<rolledback, resp>>
          ELSE /\ Rollback(r, "Could not update item in database.")
               /\ UNCHANGED <<items, origin, committed>>
  /\ UNCHANGED <<API_KEY, seq, created, deleted, req>>

\* PUT /items/{item_id} : db.refresh(db_item); return db_item
update_item_refresh(r) ==
  /\ pc[r] = "refresh"
  /\ req[r].op = "update"
  /\ Refresh(r, 200, "Could not update item in database.")

\* DELETE /items/{item_id} : dependencies, the query and the 404 check.
delete_item_endpoint(r) ==
  /\ pc[r] = "idle"
  /\ \E key \in Headers, item_id \in Ids :
       LET rq == Request("delete", key, item_id, NoBody, 0, 0) IN
       IF Refusal(rq) # NoResp THEN Refuse(r, rq)
       ELSE
         /\ req' = [req EXCEPT ![r] = rq]
         /\ session' = [session EXCEPT ![r] = "tx"]
         /\ IF ~HasRow(items, item_id)
            THEN /\ resp' = [resp EXCEPT ![r] = Response(404, "Item not found")]
                 /\ pc' = [pc EXCEPT ![r] = "cleanup"]
                 /\ UNCHANGED loaded
            ELSE /\ loaded' = [loaded EXCEPT ![r] = First(items, item_id)]
                 /\ pc' = [pc EXCEPT ![r] = "commit"]
                 /\ UNCHANGED resp
         /\ UNCHANGED <<API_KEY, items, seq, created, deleted, origin,
                        committed, rolledback>>

\* DELETE /items/{item_id} : db.delete; db.commit (flush: DELETE, which
\* only warns when the row is already gone; COMMIT); return 204.
delete_item_commit(r) ==
  /\ pc[r] = "commit"
  /\ req[r].op = "delete"
  /\ \E ok \in BOOLEAN :
       IF ok
       THEN /\ items' = Without(items, req[r].id)
            /\ deleted' = IF HasRow(items, req[r].id)
                          THEN deleted \cup {req[r].id} ELSE deleted
            /\ origin' = {e \in origin : e.id # req[r].id}
            /\ committed' = [committed EXCEPT ![r] = TRUE]
            /\ session' = [session EXCEPT ![r] = "open"]
            /\ resp' = [resp EXCEPT ![r] = Response(204, "")]
            /\ loaded' = [loaded EXCEPT ![r] = NoRow]
            /\ pc' = [pc EXCEPT ![r] = "cleanup"]
            /\ UNCHANGED rolledback
       ELSE /\ Rollback(r, "Could not delete item from database.")
            /\ UNCHANGED <<items, deleted, origin, committed>>
  /\ UNCHANGED <<API_KEY, seq, created, req>>

\* Variant: no finally, the session is closed only when the endpoint
\* returned normally.
get_db_without_finally(r) ==
  /\ pc[r] = "cleanup"
  /\ session' = [session EXCEPT ![r] =
                   IF resp[r].status \in {200, 201, 204} THEN "closed" ELSE session[r]]
  /\ pc' = [pc EXCEPT ![r] = "idle"]
  /\ req' = [req EXCEPT ![r] = NoReq]
  /\ resp' = [resp EXCEPT ![r] = NoResp]
  /\ committed' = [committed EXCEPT ![r] = FALSE]
  /\ rolledback' = [rolledback EXCEPT ![r] = FALSE]
  /\ UNCHANGED <<API_KEY, items, seq, created, deleted, origin, loaded>>

\* get_db: finally: db.close().  The response has been produced; the
\* worker is free for the next request.
get_db(r) ==
  /\ pc[r] = "cleanup"
  /\ session' = [session EXCEPT ![r] = "closed"]
  /\ pc' = [pc EXCEPT ![r] = "idle"]
  /\ req' = [req EXCEPT ![r] = NoReq]
  /\ resp' = [resp EXCEPT ![r] = NoResp]
  /\ committed' = [committed EXCEPT ![r] = FALSE]
  /\ rolledback' = [rolledback EXCEPT ![r] = FALSE]
  /\ UNCHANGED <<API_KEY, items, seq, created, deleted, origin, loaded>>

Next ==
  \E r \in Workers :
    \/ create_item_endpoint(r)
    \/ create_item_refresh(r)
    \/ read_item_endpoint(r)
    \/ list_items_endpoint(r)
    \/ update_item_endpoint(r)
    \/ update_item_commit(r)
    \/ update_item_refresh(r)
    \/ delete_item_endpoint(r)
    \/ delete_item_commit(r)
    \/ get_db(r)

Spec == Init /\ [][Next]_vars

\* =============================================================== claims
Success == {200, 201, 204}

\* Worker r starts a request in this step (dependencies and first database
\* call of the endpoint).
Starts(r) == pc[r] = "idle" /\ pc'[r] # "idle"

\* The header worker r presented is missing or differs from the secret.
BadKey(rq) == rq.key = None \/ rq.key # API_KEY

\* The id belongs to a committed insert and to no committed delete.
Live(id) == id \in SeqRange(created) /\ id \notin deleted

\* C1: a request to an authenticated endpoint whose X-API-Key header is
\* missing or differs from the configured secret is answered 401, and no
\* step of that request changes the table or the id sequence.
C1_UnauthorizedTouchesNothing ==
  [][\A r \in Workers :
       /\ (Starts(r) /\ BadKey(req'[r]))
            => /\ resp'[r].status = 401
               /\ pc'[r] = "cleanup"
               /\ items' = items /\ seq' = seq
       /\ (pc[r] # "idle" /\ pc'[r] # pc[r] /\ BadKey(req[r]))
            => /\ resp[r].status = 401
               /\ pc'[r] = "idle"
               /\ items' = items /\ seq' = seq]_vars

C1_Witness ==
  \E r \in Workers :
    /\ pc[r] = "cleanup" /\ resp[r].status = 401
    /\ req[r].op = "delete" /\ req[r].key = Some("wrong")
    /\ API_KEY = Some("secret")
    /\ Len(items) > 0

\* C2: a read that answers 200 for a row untouched since its insert returns
\* name, price, description and is_offer exactly as sent to create, the
\* optional fields that were not sent being null.
C2_CreateThenGet ==
  \A r \in Workers :
    \A e \in origin :
      (pc[r] = "cleanup" /\ req[r].op = "read" /\ resp[r].status = 200
         /\ e.id = req[r].id)
        => \A f \in Fields : resp[r].body[f] = model_dump(e.item)[f]

C4_IdsUniqueAndIncreasing ==
  /\ \A i, j \in 1..Len(items) : i # j => items[i].id # items[j].id
  /\ \A i, j \in 1..Len(created) : i < j => created[i] < created[j]
  /\ RowIds(items) \subseteq SeqRange(created)
  /\ RowIds(items) \cap deleted = {}

C4_Witness ==
  /\ Len(created) = 2
  /\ created[1] \in deleted
  /\ RowIds(items) = {created[2]}
  /\ \E r \in Workers :
       pc[r] = "refresh" /\ req[r].op = "create" /\ loaded[r].id = created[2]

\* C5: every stored row has a name that is present and non-empty and a
\* price that is present.
C5_RowsComplete ==
  \A i \in 1..Len(items) :
    /\ items[i].name # None /\ items[i].name # Some("")
    /\ items[i].price # None

\* C6: once the endpoint of a create, update or delete has produced its
\* response, the response is a success exactly when the request's
\* transaction was committed.
C6_AtomicWithResponse ==
  \A r \in Workers :
    (pc[r] = "cleanup" /\ req[r].op \in Mutations)
      => (committed[r] <=> resp[r].status \in Success)

C8_EmptyUpdate ==
  [][\A r \in Workers :
       /\ (Starts(r) /\ ~BadKey(req'[r]) /\ req'[r].op = "update"
             /\ HasRow(items, req'[r].id) /\ req'[r].item.set = {})
            => /\ resp'[r].status = 400
               /\ pc'[r] = "cleanup"
               /\ items' = items
       /\ (resp[r].status = 400 /\ pc'[r] # pc[r])
            => /\ pc'[r] = "idle"
               /\ items' = items]_vars

C8_Witness ==
  \E r \in Workers :
    /\ pc[r] = "cleanup" /\ resp[r].status = 400
    /\ req[r].op = "update" /\ req[r].item = NoBody
    /\ HasRow(items, req[r].id)

\* C9: an authenticated list leaves the table unchanged; when it answers
\* 200 it returns at most limit rows; and when skip is at least the number
\* of stored rows it answers 200 with the empty list.
C9_ListBounds ==
  [][\A r \in Workers :
       (Starts(r) /\ ~BadKey(req'[r]) /\ req'[r].op = "list")
         => /\ items' = items /\ seq' = seq
            /\ resp'[r].status \in {200, 500}
            /\ resp'[r].status = 200 => Len(resp'[r].body) <= req'[r].limit
            /\ req'[r].skip >= Len(items)
                 => resp'[r].status = 200 /\ resp'[r].body = <<>>]_vars

C9_Witness ==
  \E r \in Workers :
    /\ pc[r] = "cleanup" /\ req[r].op = "list" /\ resp[r].status = 200
    /\ req[r].skip = 0 /\ req[r].limit = 1
    /\ Len(items) = 2
    /\ Len(resp[r].body) = 1

\* C10: a worker that is not serving a request holds no open session; a
\* request in progress holds one; pending changes exist only between the
\* setattr loop and the commit; and when the endpoint has produced its
\* response, a successful mutation has committed and a store failure has
\* been rolled back.
StoreFailure(r) ==
  resp[r].status = 500 /\ resp[r].body # "Internal Server Error"

====
